---- MODULE Spec2Model ----
(***************************************************************************)
(* Verification model of the gambletron backtesting core:                  *)
(*   AdvancedBacktester.run          (src/src/backtesting/advanced.py)     *)
(*   BacktestEngine.run_backtest     (src/src/backtesting/engine.py)       *)
(*   BacktestEngine.optimize_parameters (src/src/backtesting/engine.py)    *)
(*   StrategyValidator.walk_forward_test (src/src/backtesting/validator.py)*)
(*   ProductionMeanReversion    (src/src/trading/production_agent.py)      *)
(*   EnsembleStrategy, TrendFollowingEdge (src/src/strategies)             *)
(*   PositionSizer, Portfolio   (src/src/risk_management/risk.py)          *)
(*   the metric helpers         (src/src/utils/helpers.py)                 *)
(*                                                                         *)
(* Number representation.  The program computes in floating point; the     *)
(* model computes in fixed point with truncating division:                 *)
(*   prices and money  in cents            (100000 dollars = 10000000)     *)
(*   position sizes    in 1/1000 of a unit                                 *)
(*   confidences       in percent          (0.3 = 30, 0.5 = 50)            *)
(* Bar indices are 0-based as in the source; bar i of df is df[i + 1].     *)
(* The strategy is an arbitrary callable: on every bar it returns any      *)
(* (direction, confidence) pair of StrategyOutcomes or raises ("RAISE").   *)
(***************************************************************************)
EXTENDS Integers, Sequences, FiniteSets, TLC

(* ------------------------------ bounds --------------------------------- *)
MaxBars == 2        \* longest series handed to a direct run
MaxWarmup == 1      \* largest warm-up of a direct run
MaxRuns == 2        \* runs performed on one engine object
WFTrain == 1        \* train_period of the walk-forward call
WFTest == 22        \* test_period of the walk-forward call
WFStep == 1         \* step of the walk-forward call
WFMaxLen == 25      \* longest series handed to walk_forward_test

Closes == {10000, 11000}            \* close prices a bar can have (cents)
Confidences == {0, 30, 50, 80}      \* confidences a strategy can emit (%)

StrategyOutcomes ==
    ({"BUY", "SELL"} \X Confidences) \cup {<<"HOLD", 0>>, <<"RAISE", 0>>}

SeriesOfLength(n) == [1..n -> Closes]
AllSeries == UNION {SeriesOfLength(n) : n \in 0..MaxBars}

\* the series walk_forward_test is called on: a two-bar pattern repeated
WFSeries ==
    {[k \in 1..n |-> m[((k - 1) % 2) + 1]] :
        m \in SeriesOfLength(2), n \in (WFMaxLen - 2)..WFMaxLen}

(* ------------------------- program constants --------------------------- *)
initial_capital == 100000 * 100     \* default of both constructors, cents
adv_min_confidence == 30            \* "confidence > 0.3"
eng_min_confidence == 50            \* "confidence > 0.5"
wf_warmup_periods == 20             \* warmup_periods=20 of walk_forward_test

(* ------------------------------ state ---------------------------------- *)
VARIABLES
    kind,               \* class of the engine object
    capital,            \* self.capital / self.current_capital
    equity_curve,       \* self.equity_curve
    trades,             \* self.trades
    df,                 \* the series passed to the run (closes)
    warmup_periods,     \* warmup_periods / start_idx
    pc,                 \* "constructed", "loop", "returned", "raised"
    error,              \* exception that left the run: "none", "strategy", "ValueError"
    i,                  \* loop variable: index of the last bar entered, -1 before
    bars_processed,     \* completed iterations of the loop in the current run
    current_data,       \* the frame handed to the strategy on the last bar
    signal,             \* local signal after the strategy call
    confidence,         \* local confidence after the strategy call
    strategy_raised,    \* whether the strategy raised on the last bar
    position,           \* "None" or "LONG"
    entry_price,
    entry_time,         \* bar index of the entry, -1 for None
    position_size,
    entry_confidence,
    metrics,            \* BacktestMetrics / BacktestResults being built
    runs,               \* runs started on this engine object
    entries,            \* positions opened during the current run
    trades_at_start,    \* len(self.trades) when the current run started
    caller,             \* "direct" or "walk_forward"
    data,               \* the series walk_forward_test was called on
    wf_i,               \* i of walk_forward_test: start of the current window
    test_results        \* results["test_results"]

backtest_vars == <<kind, capital, equity_curve, trades, df, warmup_periods, pc, error,
          i, current_data, signal, confidence, strategy_raised, position,
          entry_price, entry_time, position_size, entry_confidence, metrics,
          runs, entries, trades_at_start, bars_processed, caller, data, wf_i,
          test_results>>

wf_vars == <<caller, data, wf_i, test_results>>

\* state of a ProductionMeanReversion agent
VARIABLES
    positions,          \* self.positions: symbol -> Position
    portfolio_value,    \* self.portfolio_value
    daily_loss,         \* self.daily_loss
    consecutive_losses, \* self.consecutive_losses
    day,                \* run_trading_day calls made so far
    exec,               \* the last execute_trade call and what it returned
    trading_day         \* the last run_trading_day call and its day_report

agent_vars == <<positions, portfolio_value, daily_loss, consecutive_losses,
                day, exec, trading_day>>

\* state of an EnsembleStrategy
VARIABLES
    sub_strategies,     \* self.sub_strategies: the members' names, in order
    weights,            \* self.weights: name -> weight
    ens_calls,          \* add_strategy / set_strategy_weight calls made so far
    last_call,          \* the method called last on the ensemble
    ens_result          \* the last generate_signal call and what it returned

ens_vars == <<sub_strategies, weights, ens_calls, last_call, ens_result>>

\* a call of one of the stateless functions
VARIABLES
    call,               \* the function called and its arguments
    ret                 \* what the call returned, NoCall before it returns

calc_vars == <<call, ret>>

\* state of a risk_management.Portfolio
VARIABLES
    pf_positions,       \* self.positions: symbol -> position dict
    pf_trades,          \* self.trades
    current_capital,    \* self.current_capital
    pf_equity_curve,    \* self.equity_curve
    pf_calls,           \* add_position / close_position calls made so far
    pf_last             \* the last call and what it returned

pf_vars == <<pf_positions, pf_trades, current_capital, pf_equity_curve,
             pf_calls, pf_last>>

\* state of a BacktestEngine.optimize_parameters call
VARIABLES
    strategy_params,    \* self.strategy.params
    grid,               \* the combinations of the parameter grid, in order
    opt_k,              \* combinations evaluated so far
    best_sharpe,        \* local best_sharpe
    best_params,        \* local best_params
    best_results        \* local best_results

opt_vars == <<strategy_params, grid, opt_k, best_sharpe, best_params,
              best_results>>

non_backtest_vars == <<agent_vars, ens_vars, calc_vars, pf_vars, opt_vars>>

vars == <<backtest_vars, non_backtest_vars>>

(* ------------------------- arithmetic helpers -------------------------- *)
Abs(x) == IF x < 0 THEN -x ELSE x
Max(a, b) == IF a > b THEN a ELSE b
Min(a, b) == IF a < b THEN a ELSE b

\* exact fractions <<numerator, denominator>> in lowest terms, for the
\* quantities whose claims are equalities between quotients
RECURSIVE GCD(_, _)
GCD(a, b) == IF b = 0 THEN a ELSE GCD(b, a % b)
Rat(n, d) ==
    LET sn == IF d < 0 THEN -n ELSE n
        sd == Abs(d)
        g == GCD(Abs(sn), sd)
    IN <<sn \div g, sd \div g>>
RatAdd(x, y) == Rat(x[1] * y[2] + y[1] * x[2], x[2] * y[2])
RatMul(x, y) == Rat(x[1] * y[1], x[2] * y[2])
RatDiv(x, y) == Rat(x[1] * y[2], x[2] * y[1])
RatLess(x, y) == x[1] * y[2] < y[1] * x[2]
RatZero == <<0, 1>>
RatOne == <<1, 1>>
RatHalf == <<1, 2>>

\* price * size, a money amount
Notional(price, size) == (price * size) \div 1000

\* df.iloc[:n]  (slices clip at the end of the frame)
iloc_prefix_lookahead(frame, n) == SubSeq(frame, 1, Min(n + 1, Len(frame)))
iloc_prefix(frame, n) == SubSeq(frame, 1, Min(n, Len(frame)))

(* --------------------------- ExecutionMetrics -------------------------- *)
\* price * get_slippage_multiplier(direction), slippage_bps = 2.0 and
\* spread_bps = 1.5: base = 10002/10000, spread = 20003/20000
get_slippage_multiplier(price, direction) ==
    IF direction = "buy"
    THEN (((price * 10002) \div 10000) * 20003) \div 20000
    ELSE (((price * 10000) \div 10002) * 20000) \div 20003

\* abs(notional) * commission_pct, commission_pct = 0.001
adv_commission(notional) == Abs(notional) \div 1000

(* ------------------------- AdvancedBacktester -------------------------- *)
adv_entry_condition_inclusive(sig, pos, conf) ==
    sig = "BUY" /\ pos = "None" /\ conf >= adv_min_confidence
adv_entry_condition(sig, pos, conf) ==
    sig = "BUY" /\ pos = "None" /\ conf > adv_min_confidence

adv_exit_condition(sig, pos) == sig = "SELL" /\ pos = "LONG"

\* (self.capital * self.max_position_pct) / current_price, max_position_pct = 0.02
adv_position_size(cap, price) == (((cap * 2) \div 100) * 1000) \div price

\* self.capital += net_pnl
capital_after_close_gross(cap, gross_pnl, net_pnl) == cap + gross_pnl
capital_after_close(cap, gross_pnl, net_pnl) == cap + net_pnl

\* position = None after a signal exit
position_after_exit_stale == "LONG"
position_after_exit == "None"

\* the Trade built at lines 224-246 (signal) and 278-299 (end_of_data)
adv_trade(exit_price, exit_time, holding_bars, reason) ==
    LET gross_pnl == Notional(exit_price - entry_price, position_size)
        commission == adv_commission(Notional(entry_price, position_size))
                      + adv_commission(Notional(exit_price, position_size))
    IN [entry_time |-> entry_time, exit_time |-> exit_time,
        entry_price |-> entry_price, exit_price |-> exit_price,
        position_size |-> position_size,
        gross_pnl |-> gross_pnl, net_pnl |-> gross_pnl - commission,
        commission_paid |-> commission, holding_bars |-> holding_bars,
        reason |-> reason, confidence |-> entry_confidence]

\* the win/loss counters updated at lines 254-259 and 305-310
adv_count(m, t) ==
    IF t.net_pnl > 0
    THEN [m EXCEPT !.winning_trades = @ + 1, !.gross_profit = @ + t.gross_pnl]
    ELSE [m EXCEPT !.losing_trades = @ + 1, !.gross_loss = @ + Abs(t.gross_pnl)]

EmptyMetrics ==
    [trades |-> 0, winning_trades |-> 0, losing_trades |-> 0,
     gross_profit |-> 0, gross_loss |-> 0,
     total_trades |-> 0, ending_capital |-> 0, net_profit |-> 0,
     profit_factor |-> RatZero, sharpe_ratio |-> "0.0", max_drawdown |-> 0]

\* metrics.profit_factor: set only with trades and a positive gross_loss,
\* 0.0 otherwise
adv_profit_factor(m, total_trades) ==
    IF total_trades > 0 /\ m.gross_loss > 0
    THEN Rat(m.gross_profit, m.gross_loss)
    ELSE RatZero

\* equity_series.pct_change().dropna()
pct_change(curve) ==
    [k \in 1..(Len(curve) - 1) |-> Rat(curve[k + 1] - curve[k], curve[k])]

\* metrics.sharpe_ratio: sqrt(252) * mean / std is assigned only when
\* there are returns and returns.std() > 0 (NaN for a single return),
\* otherwise the field keeps its 0.0; the quotient itself is not computed
adv_sharpe_ratio(curve) ==
    LET returns == pct_change(curve)
    IN IF Len(returns) > 0
          /\ \E j, k \in 1..Len(returns) : returns[j] # returns[k]
       THEN "finite"
       ELSE "0.0"

\* equity_series.cummax() at row k
RECURSIVE cummax(_, _)
cummax(curve, k) ==
    IF k = 1 THEN curve[1] ELSE Max(curve[k], cummax(curve, k - 1))

\* min((equity_series - cummax) / cummax) in 1/10000, rounded down
RECURSIVE min_drawdown(_, _)
min_drawdown(curve, k) ==
    LET here == ((curve[k] - cummax(curve, k)) * 10000) \div cummax(curve, k)
    IN IF k = 1 THEN here ELSE Min(here, min_drawdown(curve, k - 1))

\* metrics.max_drawdown: computed only when there are returns
adv_max_drawdown(curve) ==
    IF Len(curve) > 1 THEN min_drawdown(curve, Len(curve)) ELSE 0

(* ---------------------------- BacktestEngine --------------------------- *)
eng_entry_condition_inclusive(sig, pos, conf) ==
    sig = "BUY" /\ pos = "None" /\ conf >= eng_min_confidence
eng_entry_condition(sig, pos, conf) ==
    sig = "BUY" /\ pos = "None" /\ conf > eng_min_confidence

eng_exit_condition(sig, pos) == sig = "SELL" /\ pos = "LONG"

\* self.initial_capital * 0.05 / current_price
eng_position_size(price) == (((initial_capital * 5) \div 100) * 1000) \div price

\* current_price * (1 +/- self.slippage_pips * 0.0001), slippage_pips = 1.0
eng_entry_price(price) == (price * 10001) \div 10000
eng_exit_price(price) == (price * 9999) \div 10000

\* self.initial_capital * self.commission, commission = 0.0002
eng_commission == (initial_capital * 2) \div 10000

\* the Trade built at lines 135-151 (signal) and 162-176 (end_of_data)
eng_trade(exit_price, exit_time, reason) ==
    [entry_time |-> entry_time, exit_time |-> exit_time,
     entry_price |-> entry_price, exit_price |-> exit_price,
     position_size |-> position_size,
     pnl |-> Notional(exit_price - entry_price, position_size) - eng_commission,
     reason |-> reason]

(* ------------------- ProductionMeanReversion: state -------------------- *)
MaxDays == 4        \* run_trading_day calls made on one agent

Symbols == {"SPY"}                     \* the keys of the data dict
AgentCloses == {3000, 10000, 11200}    \* df["close"].iloc[-1], cents
AgentConfidences == {40, 50}           \* confidence of a BUY/SELL signal (%)
Volatilities == {0, 10}                \* 20-day std of the returns (%)

\* what the agent reads from the frame of one symbol: the last close, the
\* signal generate_signal derives from it (or the caller passes), the
\* liquidity verdict, the 20-day volatility, and whether the close is
\* within 0.5% of the 50-day mean
Frames ==
    [close : AgentCloses,
     signal : {"BUY", "SELL", "HOLD"},
     confidence : AgentConfidences,
     liquid : BOOLEAN,
     volatility : Volatilities,
     near_mean : BOOLEAN]

agent_initial_value == 100000 * 100    \* self.portfolio_value = 100000
max_position_pct == 3                  \* RiskParameters defaults, percent
max_portfolio_heat == 5
stop_loss_pct == 3
profit_target_pct == 10
max_drawdown_pct == 8
max_consecutive_losses == 3
max_daily_loss_pct == 2
agent_min_confidence == 50             \* "confidence < 0.5" rejects

NoPositions == [s \in {} |-> 0]
NoCall == [called |-> FALSE]
\* the None that execute_trade returns in place of a Position
NoPosition == [entry_price |-> 0, entry_time |-> 0, size |-> 0]

\* ProductionMeanReversion.__init__
AgentInit ==
    /\ positions = NoPositions
    /\ portfolio_value = agent_initial_value
    /\ daily_loss = 0
    /\ consecutive_losses = 0
    /\ day = 0
    /\ exec = NoCall
    /\ trading_day = NoCall

(* ------------------------ EnsembleStrategy: state ---------------------- *)
MaxEnsCalls == 2    \* add_strategy / set_strategy_weight calls on one ensemble

Names == {"MeanReversion", "RSI"}      \* strategy.name of the members
ExplicitWeights == {RatHalf, RatOne}   \* weights a caller passes

\* the lists of members the constructor is given; further members join
\* through add_strategy
MemberLists == {<<>>} \cup {<<n>> : n \in Names}

SeqRange(q) == {q[k] : k \in 1..Len(q)}

\* {s.name: 1.0 / len(strategies) for s in strategies}
default_weights(strategies) ==
    [n \in SeqRange(strategies) |-> Rat(1, Len(strategies))]

\* EnsembleStrategy(strategies, weights): "weights or {...}" falls back to
\* the default for None and for the empty dict
EnsembleInit ==
    /\ sub_strategies \in MemberLists
    /\ \/ weights = default_weights(sub_strategies)
       \/ /\ sub_strategies # <<>>
          /\ weights \in [SeqRange(sub_strategies) -> ExplicitWeights]
    /\ ens_calls = 0
    /\ last_call = "__init__"
    /\ ens_result = NoCall

\* EnsembleStrategy([]) that is never used
EnsembleIdle ==
    /\ sub_strategies = <<>>
    /\ weights = default_weights(<<>>)
    /\ ens_calls = 0
    /\ last_call = "__init__"
    /\ ens_result = NoCall

(* ------------------------- stateless functions ------------------------- *)
\* no stateless function is called
CalcIdle ==
    /\ call = NoCall
    /\ ret = NoCall

(* ------------------------- Portfolio: state ---------------------------- *)
MaxPfCalls == 3     \* add_position / close_position calls on one portfolio

PfSymbols == {"AAPL", "MSFT"}          \* symbol
PfQuantities == {10}                   \* quantity, units
PfEntryPrices == {100, 110}            \* entry_price, dollars
PfExitPrices == {100, 120}             \* exit_price, dollars
pf_initial_capital == 100000           \* initial_capital default, dollars

\* Portfolio.__init__
PortfolioInit ==
    /\ pf_positions = NoPositions
    /\ pf_trades = <<>>
    /\ current_capital = pf_initial_capital
    /\ pf_equity_curve = <<pf_initial_capital>>
    /\ pf_calls = 0
    /\ pf_last = NoCall

(* -------------------- optimize_parameters: state ----------------------- *)
MaxGrid == 2        \* values listed for the parameter in the grid
MaxOptBars == 3     \* bars of the frame after start_idx

opt_start_idx == 100                   \* start_idx default of run_backtest

\* default_params of MeanReversionStrategy (min_confidence in percent)
default_params == [window |-> 20, std_threshold |-> 2, min_confidence |-> 65]

\* the parameter_grid dicts handed to optimize_parameters
ParameterGrids == {[window |-> [k \in 1..n |-> 10 * k]] : n \in 1..MaxGrid}

\* _generate_parameter_combinations for a grid over one parameter: one
\* dict per listed value, in the order of the list
generate_parameter_combinations(param_grid) ==
    [k \in 1..Len(param_grid.window) |-> [window |-> param_grid.window[k]]]

\* the frames optimize_parameters is called on: a two-bar pattern repeated
OptSeries ==
    {[k \in 1..(opt_start_idx + MaxOptBars) |-> m[((k - 1) % 2) + 1]] :
        m \in SeriesOfLength(2)}

\* what the strategy does on a bar of a grid-search run
OptOutcomes == {<<"BUY", 80>>, <<"SELL", 80>>, <<"HOLD", 0>>, <<"RAISE", 0>>}

\* Python None in best_params / best_results
None == [is_none |-> TRUE]

\* -float("inf")
MinusInf == [kind |-> "-inf", key |-> RatZero]

\* the locals of optimize_parameters at lines 243-245
optimize_locals ==
    /\ opt_k = 0
    /\ best_sharpe = MinusInf
    /\ best_params = None
    /\ best_results = None

\* no optimize_parameters call is made
OptimizeIdle ==
    /\ strategy_params = default_params
    /\ grid = <<>>
    /\ optimize_locals

(* ------------------------------- Init ---------------------------------- *)
\* the engine object and the locals of its run method after __init__
engine_constructed ==
    /\ wf_i = 0
    /\ test_results = <<>>
    /\ capital = initial_capital
    /\ equity_curve = <<initial_capital>>
    /\ trades = <<>>
    /\ pc = "constructed"
    /\ error = "none"
    /\ i = -1
    /\ bars_processed = 0
    /\ current_data = <<>>
    /\ signal = "HOLD"
    /\ confidence = 0
    /\ strategy_raised = FALSE
    /\ position = "None"
    /\ entry_price = 0
    /\ entry_time = -1
    /\ position_size = 0
    /\ entry_confidence = 0
    /\ metrics = EmptyMetrics
    /\ runs = 0
    /\ entries = 0
    /\ trades_at_start = 0

\* __init__ of either engine, together with the data set the caller holds
BacktestInit ==
    /\ \/ /\ caller = "direct"
          /\ kind \in {"AdvancedBacktester", "BacktestEngine"}
          /\ df \in AllSeries
          /\ warmup_periods \in 0..MaxWarmup
          /\ data = <<>>
       \/ /\ caller = "walk_forward"
          /\ kind = "AdvancedBacktester"
          /\ df = <<>>
          /\ warmup_periods = wf_warmup_periods
          /\ data \in WFSeries
    /\ engine_constructed

\* an engine that is constructed and never run
BacktestIdle ==
    /\ BacktestInit
    /\ caller = "direct"
    /\ kind = "AdvancedBacktester"
    /\ df = <<>>
    /\ warmup_periods = 0

Init ==
    /\ BacktestInit
    /\ AgentInit
    /\ EnsembleIdle
    /\ CalcIdle
    /\ PortfolioInit
    /\ OptimizeIdle

(* ------------------------------ actions -------------------------------- *)
\* the call of run / run_backtest up to the loop: the locals are initialised,
\* the engine's own state is left as it is
run_locals ==
    /\ pc' = "loop"
    /\ error' = "none"
    /\ i' = -1
    /\ bars_processed' = 0
    /\ position' = "None"
    /\ entry_price' = 0
    /\ entry_time' = -1
    /\ position_size' = 0
    /\ entry_confidence' = 0
    /\ current_data' = <<>>
    /\ signal' = "HOLD"
    /\ confidence' = 0
    /\ strategy_raised' = FALSE
    /\ metrics' = EmptyMetrics
    /\ entries' = 0

StartRun ==
    /\ caller = "direct"
    /\ pc \in {"constructed", "returned", "raised"}
    /\ runs < MaxRuns
    /\ runs' = runs + 1
    /\ run_locals
    /\ trades_at_start' = Len(trades)
    /\ UNCHANGED <<kind, capital, equity_curve, trades, df, warmup_periods>>
    /\ UNCHANGED wf_vars
    /\ UNCHANGED non_backtest_vars

\* one iteration of the loop of AdvancedBacktester.run
AdvancedBar(out) ==
    /\ kind = "AdvancedBacktester"
    /\ pc = "loop"
    /\ warmup_periods + bars_processed < Len(df)
    /\ LET idx == warmup_periods + bars_processed
           current_price == df[idx + 1]
           raised == out[1] = "RAISE"
           sig == IF raised THEN "HOLD" ELSE out[1]
           conf == IF raised THEN 0 ELSE out[2]
           enter == adv_entry_condition(sig, position, conf)
           exit == ~enter /\ adv_exit_condition(sig, position)
           exit_price == get_slippage_multiplier(current_price, "sell")
           trade == adv_trade(exit_price, idx, idx - entry_time, "signal")
           cap2 == IF exit
                   THEN capital_after_close(capital, trade.gross_pnl, trade.net_pnl)
                   ELSE capital
           pos2 == IF enter THEN "LONG"
                   ELSE IF exit THEN position_after_exit
                   ELSE position
           ep2 == IF enter THEN get_slippage_multiplier(current_price, "buy")
                  ELSE entry_price
           size2 == IF enter THEN adv_position_size(capital, current_price)
                    ELSE position_size
           curve1 == IF exit THEN Append(equity_curve, cap2) ELSE equity_curve
           curve2 == IF pos2 = "None"
                     THEN Append(curve1, cap2)
                     ELSE Append(curve1, cap2 + Notional(current_price - ep2, size2))
       IN /\ i' = idx
          /\ current_data' = iloc_prefix(df, idx + 1)
          /\ strategy_raised' = raised
          /\ signal' = sig
          /\ confidence' = conf
          /\ position' = pos2
          /\ entry_price' = ep2
          /\ position_size' = size2
          /\ entry_time' = IF enter THEN idx ELSE entry_time
          /\ entry_confidence' = IF enter THEN conf ELSE entry_confidence
          /\ entries' = IF enter THEN entries + 1 ELSE entries
          /\ trades' = IF exit THEN Append(trades, trade) ELSE trades
          /\ capital' = cap2
          /\ equity_curve' = curve2
          /\ metrics' = IF exit
                        THEN adv_count([metrics EXCEPT !.trades = @ + 1], trade)
                        ELSE metrics
    /\ bars_processed' = bars_processed + 1
    /\ UNCHANGED <<kind, df, warmup_periods, pc, error, runs, trades_at_start>>
    /\ UNCHANGED wf_vars
    /\ UNCHANGED non_backtest_vars

\* the code after the loop of AdvancedBacktester.run, up to the return
AdvancedFinish ==
    /\ kind = "AdvancedBacktester"
    /\ pc = "loop"
    /\ warmup_periods + bars_processed >= Len(df)
    /\ LET close == position = "LONG"
           trade == adv_trade(df[Len(df)], Len(df) - 1, Len(df) - entry_time,
                              "end_of_data")
           cap2 == IF close
                   THEN capital_after_close(capital, trade.gross_pnl, trade.net_pnl)
                   ELSE capital
           trades2 == IF close THEN Append(trades, trade) ELSE trades
           m1 == IF close
                 THEN adv_count([metrics EXCEPT !.trades = @ + 1], trade)
                 ELSE metrics
       IN /\ trades' = trades2
          /\ capital' = cap2
          /\ metrics' = [m1 EXCEPT !.total_trades = Len(trades2),
                                   !.ending_capital = cap2,
                                   !.net_profit = cap2 - initial_capital,
                                   !.profit_factor =
                                       adv_profit_factor(m1, Len(trades2)),
                                   !.sharpe_ratio =
                                       adv_sharpe_ratio(equity_curve),
                                   !.max_drawdown =
                                       adv_max_drawdown(equity_curve)]
    /\ pc' = "returned"
    /\ UNCHANGED <<kind, equity_curve, df, warmup_periods, error, i, current_data,
                   signal, confidence, strategy_raised, position, entry_price,
                   entry_time, position_size, entry_confidence, runs, entries,
                   trades_at_start, bars_processed>>
    /\ UNCHANGED wf_vars
    /\ UNCHANGED non_backtest_vars

\* one iteration of the loop of BacktestEngine.run_backtest; the strategy
\* call is not guarded, so an exception leaves run_backtest
EngineBar(out) ==
    /\ kind = "BacktestEngine"
    /\ pc = "loop"
    /\ warmup_periods + bars_processed < Len(df)
    /\ i' = warmup_periods + bars_processed
    /\ current_data' = iloc_prefix(df, warmup_periods + bars_processed + 1)
    /\ IF out[1] = "RAISE"
       THEN /\ strategy_raised' = TRUE
            /\ pc' = "raised"
            /\ error' = "strategy"
            /\ UNCHANGED <<bars_processed, signal, confidence, position, entry_price,
                           entry_time, position_size, entries, trades, capital,
                           equity_curve>>
       ELSE LET idx == warmup_periods + bars_processed
                current_price == df[idx + 1]
                sig == out[1]
                conf == out[2]
                enter == eng_entry_condition(sig, position, conf)
                exit == ~enter /\ eng_exit_condition(sig, position)
                trade == eng_trade(eng_exit_price(current_price), idx, "signal")
                cap2 == IF exit
                        THEN capital_after_close(capital,
                                 trade.pnl + eng_commission, trade.pnl)
                        ELSE capital
            IN /\ strategy_raised' = FALSE
               /\ signal' = sig
               /\ confidence' = conf
               /\ position' = IF enter THEN "LONG"
                              ELSE IF exit THEN position_after_exit
                              ELSE position
               /\ entry_price' = IF enter THEN eng_entry_price(current_price)
                                 ELSE entry_price
               /\ position_size' = IF enter THEN eng_position_size(current_price)
                                   ELSE position_size
               /\ entry_time' = IF enter THEN idx ELSE entry_time
               /\ entries' = IF enter THEN entries + 1 ELSE entries
               /\ trades' = IF exit THEN Append(trades, trade) ELSE trades
               /\ capital' = cap2
               /\ equity_curve' = IF exit THEN Append(equity_curve, cap2)
                                  ELSE equity_curve
               /\ bars_processed' = bars_processed + 1
               /\ UNCHANGED <<pc, error>>
    /\ UNCHANGED <<kind, df, warmup_periods, entry_confidence, metrics, runs,
                   trades_at_start>>
    /\ UNCHANGED wf_vars
    /\ UNCHANGED non_backtest_vars

\* the code after the loop of BacktestEngine.run_backtest, with
\* _calculate_results: pd.Series(self.equity_curve, index=df.index[:len(...)])
\* raises ValueError when the curve is longer than the frame
EngineFinish ==
    /\ kind = "BacktestEngine"
    /\ pc = "loop"
    /\ warmup_periods + bars_processed >= Len(df)
    /\ LET close == position = "LONG"
           trade == eng_trade(df[Len(df)], Len(df) - 1, "end_of_data")
           cap2 == IF close
                   THEN capital_after_close(capital,
                            trade.pnl + eng_commission, trade.pnl)
                   ELSE capital
           trades2 == IF close THEN Append(trades, trade) ELSE trades
           curve2 == IF close THEN Append(equity_curve, cap2) ELSE equity_curve
           fits == Len(curve2) <= Len(df)
       IN /\ trades' = trades2
          /\ capital' = cap2
          /\ equity_curve' = curve2
          /\ pc' = IF fits THEN "returned" ELSE "raised"
          /\ error' = IF fits THEN "none" ELSE "ValueError"
          /\ metrics' = IF fits
                        THEN [metrics EXCEPT
                                 !.trades = Len(trades2),
                                 !.total_trades = Len(trades2),
                                 !.ending_capital = curve2[Len(curve2)],
                                 !.net_profit = curve2[Len(curve2)] - initial_capital]
                        ELSE metrics
    /\ UNCHANGED <<kind, df, warmup_periods, i, current_data, signal, confidence,
                   strategy_raised, position, entry_price, entry_time,
                   position_size, entry_confidence, runs, entries,
                   trades_at_start, bars_processed>>
    /\ UNCHANGED wf_vars
    /\ UNCHANGED non_backtest_vars

\* walk_forward_test: the loop test, the two slices, the construction of a
\* fresh AdvancedBacktester and the call of run(test_data, warmup_periods=20)
wf_loop_condition(start) == start + WFTrain + WFTest < Len(data)

WalkForwardWindow ==
    /\ caller = "walk_forward"
    /\ pc \in {"constructed", "collected"}
    /\ wf_loop_condition(wf_i)
    /\ df' = SubSeq(data, wf_i + WFTrain + 1, wf_i + WFTrain + WFTest)
    /\ capital' = initial_capital
    /\ equity_curve' = <<initial_capital>>
    /\ trades' = <<>>
    /\ trades_at_start' = 0
    /\ runs' = 1
    /\ run_locals
    /\ UNCHANGED <<kind, warmup_periods, caller, data, wf_i, test_results>>
    /\ UNCHANGED non_backtest_vars

\* walk_forward_test after run returned: the window's result is recorded
\* and i += step
WalkForwardCollect ==
    /\ caller = "walk_forward"
    /\ pc = "returned"
    /\ test_results' = Append(test_results,
            [period |-> Len(test_results) + 1,
             net_profit |-> metrics.net_profit,
             trades |-> metrics.total_trades])
    /\ wf_i' = wf_i + WFStep
    /\ pc' = "collected"
    /\ UNCHANGED <<kind, capital, equity_curve, trades, df, warmup_periods, error,
                   i, bars_processed, current_data, signal, confidence,
                   strategy_raised, position, entry_price, entry_time,
                   position_size, entry_confidence, metrics, runs, entries,
                   trades_at_start, caller, data>>
    /\ UNCHANGED non_backtest_vars

\* walk_forward_test after the loop: total_tests = len(test_results)
WalkForwardDone ==
    /\ caller = "walk_forward"
    /\ pc \in {"constructed", "collected"}
    /\ ~wf_loop_condition(wf_i)
    /\ pc' = "wf_done"
    /\ UNCHANGED <<kind, capital, equity_curve, trades, df, warmup_periods, error,
                   i, bars_processed, current_data, signal, confidence,
                   strategy_raised, position, entry_price, entry_time,
                   position_size, entry_confidence, metrics, runs, entries,
                   trades_at_start>>
    /\ UNCHANGED wf_vars
    /\ UNCHANGED non_backtest_vars

Next ==
    \/ StartRun
    \/ \E out \in StrategyOutcomes : AdvancedBar(out)
    \/ AdvancedFinish
    \/ \E out \in StrategyOutcomes : EngineBar(out)
    \/ EngineFinish
    \/ WalkForwardWindow
    \/ WalkForwardCollect
    \/ WalkForwardDone

Spec == Init /\ [][Next]_vars

(* ------------- AdvancedBacktester alone, with small price moves -------- *)
\* closes that move by less than the round-trip commission (0.2%)
FineCloses == {10000, 10020}
FineSeries == UNION {[1..n -> FineCloses] : n \in 0..MaxBars}

\* AdvancedBacktester() and the frame a direct caller runs it on
AdvancedInit ==
    /\ caller = "direct"
    /\ kind = "AdvancedBacktester"
    /\ df \in FineSeries
    /\ warmup_periods \in 0..MaxWarmup
    /\ data = <<>>
    /\ engine_constructed

AdvancedNext ==
    \/ StartRun
    \/ \E out \in StrategyOutcomes : AdvancedBar(out)
    \/ AdvancedFinish

AdvancedSpecInit ==
    AdvancedInit /\ AgentInit /\ EnsembleIdle /\ CalcIdle /\ PortfolioInit
    /\ OptimizeIdle

SpecAdvanced == AdvancedSpecInit /\ [][AdvancedNext]_vars

(* ======================== properties of the runs ======================= *)
Advanced == kind = "AdvancedBacktester"
Basic == kind = "BacktestEngine"

\* a step that completes one iteration of the simulation loop
BarStep == pc = "loop" /\ bars_processed' = bars_processed + 1

\* the entry threshold of the engine at hand
Threshold == IF Advanced THEN adv_min_confidence ELSE eng_min_confidence

\* net P&L of a recorded trade (Trade.net_pnl / Trade.pnl)
NetPnl(t) == IF Advanced THEN t.net_pnl ELSE t.pnl

\* gross P&L of a recorded trade, (exit_price - entry_price) * size
GrossPnl(t) == Notional(t.exit_price - t.entry_price, t.position_size)

RECURSIVE SumNet(_)
SumNet(ts) == IF ts = <<>> THEN 0 ELSE NetPnl(Head(ts)) + SumNet(Tail(ts))

\* the trades recorded by the current run
RunTrades == {k \in 1..Len(trades) : k > trades_at_start}

\* C1: after AdvancedBacktester.run on a fresh engine over N bars with
\* warm-up w the equity curve has exactly max(N - w, 0) + 1 entries.
C1_AdvancedEquityCurveLength ==
    (Advanced /\ pc = "returned" /\ runs = 1)
        => Len(equity_curve) = Max(Len(df) - warmup_periods, 0) + 1

\* C2: every bar processed by BacktestEngine.run_backtest appends exactly one
\* value to the equity curve: the capital when FLAT, the mark-to-market
\* capital when LONG.
C2_EngineAppendsOnEveryBar ==
    [][(Basic /\ BarStep) =>
          equity_curve' = Append(equity_curve,
              IF position' = "None"
              THEN capital'
              ELSE capital' + Notional(df[i' + 1] - entry_price', position_size'))]_vars

\* C3: the capital is the initial capital plus the net P&L of all recorded
\* trades: a close changes the capital by the trade's net P&L and by nothing
\* else.
C3_CapitalIsInitialPlusNetPnl ==
    capital = initial_capital + SumNet(trades)

C3_Witness ==
    /\ pc = "returned"
    /\ Len(trades) = 2
    /\ trades[1].reason = "signal"
    /\ trades[2].reason = "end_of_data"
    /\ NetPnl(trades[1]) > 0
    /\ NetPnl(trades[2]) < 0

\* C4: on bar i the strategy is handed exactly bars 0..i of the series the
\* run was called on (for a walk-forward window: the bars of the window up
\* to the current one), and the bars are handed over in increasing order.
C4_NoLookAhead ==
    /\ [](( pc \in {"loop", "returned", "raised"} /\ i >= 0) =>
            /\ i < Len(df)
            /\ Len(current_data) = i + 1
            /\ current_data = SubSeq(df, 1, i + 1)
            /\ caller = "walk_forward" =>
                  current_data = SubSeq(data, wf_i + WFTrain + 1,
                                        wf_i + WFTrain + i + 1))
    /\ [][i' # i => \/ i' = -1
                    \/ i = -1 /\ i' = warmup_periods
                    \/ i >= 0 /\ i' = i + 1]_vars

C4_Witness ==
    /\ pc = "loop"
    /\ i >= 1
    /\ Len(df) > i + 1
    /\ Len(current_data) = i + 1

\* C5: a strategy that raises on a bar is treated as (HOLD, 0.0) on that bar
\* and never aborts the run, in both engines.
C5_StrategyFailureNeverAborts ==
    strategy_raised =>
        (pc # "raised" /\ error # "strategy" /\ signal = "HOLD" /\ confidence = 0)

\* C6: every position opened during a run is closed exactly once, by a later
\* SELL or by the forced close at the final bar's close with reason
\* "end_of_data"; at the return the run has recorded one trade per entry.
C6_EveryPositionClosedOnce ==
    /\ pc = "loop" =>
          Len(trades) - trades_at_start
              = entries - (IF position = "LONG" THEN 1 ELSE 0)
    /\ pc = "returned" => Len(trades) - trades_at_start = entries
    /\ pc \in {"loop", "returned"} =>
          /\ \A j \in RunTrades : \A k \in RunTrades :
                j < k => trades[j].exit_time < trades[k].entry_time
          /\ \A k \in RunTrades :
                trades[k].reason = "end_of_data" =>
                    /\ pc = "returned"
                    /\ k = Len(trades)
                    /\ trades[k].exit_price = df[Len(df)]
                    /\ trades[k].exit_time = Len(df) - 1

C6_Witness ==
    /\ pc = "returned"
    /\ runs = 2
    /\ entries = 1
    /\ trades_at_start = 1
    /\ trades[Len(trades)].reason = "end_of_data"
    /\ trades[Len(trades) - 1].reason = "signal"

\* C7 as stated: the engine goes FLAT -> LONG exactly when it is FLAT and the
\* strategy emits BUY with confidence >= threshold.
C7_EntryAtOrAboveThreshold ==
    [][BarStep =>
          ((position = "None" /\ position' = "LONG")
              <=> (position = "None" /\ signal' = "BUY"
                      /\ confidence' >= Threshold))]_vars

\* C7 amended: the engine goes FLAT -> LONG exactly when it is FLAT and the
\* strategy emits BUY with confidence strictly above the threshold
\* (> 0.3 / > 0.5); a BUY while LONG opens no second position.
C7_EntryAboveThreshold ==
    [][BarStep =>
          /\ (position = "None" /\ position' = "LONG")
                <=> (position = "None" /\ signal' = "BUY"
                        /\ confidence' > Threshold)
          /\ entries' = (IF position = "None" /\ position' = "LONG"
                         THEN entries + 1 ELSE entries)
          /\ position = "LONG" => entries' = entries]_vars

C7_Witness ==
    /\ pc = "loop"
    /\ position = "LONG"
    /\ entry_time = i
    /\ signal = "BUY"
    /\ confidence > Threshold
    /\ runs = 2
    /\ trades_at_start = 1

\* C8: HOLD, and any BUY or SELL whose confidence is at or below the
\* configured minimum, leaves the position, the capital and the trade list
\* unchanged, FLAT or LONG.
C8_LowConfidenceIsNoOp ==
    [][(BarStep /\ (signal' = "HOLD" \/ confidence' <= Threshold)) =>
          UNCHANGED <<position, capital, trades>>]_vars

\* C9: at the start of every run the capital is initial_capital, the equity
\* curve holds only the seed and the trade list is empty, whatever ran
\* before on the same engine object.
C9_RunStartsFresh ==
    (pc = "loop" /\ bars_processed = 0 /\ i = -1) =>
        /\ capital = initial_capital
        /\ equity_curve = <<initial_capital>>
        /\ trades = <<>>

\* commission_rate * notional for the engine at hand
\* (commission_pct = 0.001 / commission = 0.0002)
CommissionOn(notional) ==
    IF Advanced THEN adv_commission(notional)
    ELSE (Abs(notional) * 2) \div 10000

\* C10: for every closed trade of a returned run the cost deducted from the gross P&L is the
\* commission on the notional of the entry leg plus that of the exit leg,
\* and net P&L = gross P&L - cost.
C10_CommissionOnBothLegs ==
    pc = "returned" => \A k \in 1..Len(trades) :
        LET t == trades[k]
            cost == CommissionOn(Notional(t.entry_price, t.position_size))
                    + CommissionOn(Notional(t.exit_price, t.position_size))
        IN /\ NetPnl(t) = GrossPnl(t) - cost
           /\ Advanced => (t.commission_paid = cost /\ t.gross_pnl = GrossPnl(t))

(* =================== ProductionMeanReversion (agent) =================== *)
\* RiskParameters.is_safe; the first argument of the code,
\* portfolio_heat / self.portfolio_value, is passed as its two terms.  The
\* last conjunct compares the dollar amount self.daily_loss with the
\* fraction 0.02, that is with 2 cents
is_safe_inclusive(portfolio_heat, value, losses, loss) ==
    /\ portfolio_heat * 100 <= max_portfolio_heat * value
    /\ losses <= max_consecutive_losses
    /\ loss <= max_daily_loss_pct
is_safe(portfolio_heat, value, losses, loss) ==
    /\ portfolio_heat * 100 <= max_portfolio_heat * value
    /\ losses < max_consecutive_losses
    /\ loss <= max_daily_loss_pct

\* Position.mark_to_market: gross_pnl, net_pnl = gross_pnl * 0.998
mark_to_market(p, current_price) ==
    LET gross_pnl == Notional(current_price - p.entry_price, p.size)
    IN [gross_pnl |-> gross_pnl, net_pnl |-> (gross_pnl * 998) \div 1000]

\* pnl_pct >= profit_target_pct and pnl_pct <= -stop_loss_pct, with
\* pnl_pct = (current_price - entry_price) / entry_price
profit_target_hit(p, current_price) ==
    (current_price - p.entry_price) * 100 >= profit_target_pct * p.entry_price
stop_loss_hit(p, current_price) ==
    (current_price - p.entry_price) * 100 <= -(stop_loss_pct * p.entry_price)

\* calculate_position_size: portfolio_value * max_position_pct, scaled by
\* 1 / (1 + volatility * 10), divided by the price, floored at 0
calculate_position_size(value, current_price, volatility) ==
    LET risk_amount == (value * max_position_pct) \div 100
        scaled == (risk_amount * 100) \div (100 + volatility * 10)
    IN Max(0, (scaled * 1000) \div current_price)

\* sum(p.size * p.entry_price * max_portfolio_heat for p in positions)
RECURSIVE portfolio_heat_of(_, _)
portfolio_heat_of(pos, syms) ==
    IF syms = {} THEN 0
    ELSE LET s == CHOOSE x \in syms : TRUE
         IN (Notional(pos[s].entry_price, pos[s].size) * max_portfolio_heat)
                \div 100
            + portfolio_heat_of(pos, syms \ {s})

\* execute_trade: the Position it returns, NoPosition for None
execute_trade(pos, value, losses, loss, frame, today) ==
    LET size == calculate_position_size(value, frame.close, frame.volatility)
    IN IF ~is_safe(portfolio_heat_of(pos, DOMAIN pos), value, losses, loss)
       THEN NoPosition
       ELSE IF ~frame.liquid THEN NoPosition
       ELSE IF frame.signal = "HOLD" THEN NoPosition
       ELSE IF frame.confidence < agent_min_confidence THEN NoPosition
       ELSE IF size = 0 THEN NoPosition
       ELSE [entry_price |-> frame.close, entry_time |-> today, size |-> size]

\* what is remembered of an execute_trade call: its arguments, the agent's
\* fields it read, and whether it returned a Position
exec_record(value, losses, loss, frame, result) ==
    [called |-> TRUE, signal |-> frame.signal, confidence |-> frame.confidence,
     liquid |-> frame.liquid, portfolio_value |-> value,
     consecutive_losses |-> losses, daily_loss |-> loss,
     returned |-> result # NoPosition]

\* manage_positions for one symbol: the positions, consecutive_losses and
\* daily_loss it leaves
manage_positions(pos, losses, loss, sym, frame) ==
    IF sym \notin DOMAIN pos
    THEN [positions |-> pos, consecutive_losses |-> losses, daily_loss |-> loss]
    ELSE LET p == pos[sym]
             pnl_info == mark_to_market(p, frame.close)
             deleted == [s \in DOMAIN pos \ {sym} |-> pos[s]]
         IN IF profit_target_hit(p, frame.close)
            THEN [positions |-> deleted, consecutive_losses |-> 0,
                  daily_loss |-> loss]
            ELSE IF stop_loss_hit(p, frame.close)
            THEN [positions |-> deleted, consecutive_losses |-> losses + 1,
                  daily_loss |-> loss + pnl_info.net_pnl]
            ELSE IF frame.near_mean
            THEN [positions |-> deleted,
                  consecutive_losses |->
                      IF frame.close > p.entry_price THEN 0 ELSE losses + 1,
                  daily_loss |-> loss]
            ELSE [positions |-> pos, consecutive_losses |-> losses,
                  daily_loss |-> loss]

\* run_trading_day(data, current_date) with data = {sym: frame}
RunTradingDay(sym, frame) ==
    /\ day < MaxDays
    /\ LET managed == manage_positions(positions, consecutive_losses, 0, sym,
                                       frame)
           asks == sym \notin DOMAIN managed.positions /\ frame.signal # "HOLD"
           new_position == execute_trade(managed.positions, portfolio_value,
                                     managed.consecutive_losses,
                                     managed.daily_loss, frame, day + 1)
           entered == IF asks /\ new_position # NoPosition
                      THEN [s \in DOMAIN managed.positions \cup {sym} |->
                               IF s = sym THEN new_position
                               ELSE managed.positions[s]]
                      ELSE managed.positions
       IN /\ positions' = entered
          /\ consecutive_losses' = managed.consecutive_losses
          /\ daily_loss' = managed.daily_loss
          /\ portfolio_value' =
                 IF sym \in DOMAIN entered
                 THEN agent_initial_value
                      + Notional(frame.close - entered[sym].entry_price,
                                 entered[sym].size)
                 ELSE agent_initial_value
          /\ exec' = IF asks
                     THEN exec_record(portfolio_value,
                                      managed.consecutive_losses,
                                      managed.daily_loss, frame, new_position)
                     ELSE NoCall
          /\ trading_day' =
                 [called |-> TRUE, close |-> frame.close,
                  exits |-> IF sym \in DOMAIN positions
                               /\ sym \notin DOMAIN managed.positions
                            THEN <<[symbol |-> sym, exit_price |-> frame.close]>>
                            ELSE <<>>]
    /\ day' = day + 1
    /\ UNCHANGED <<backtest_vars, ens_vars, calc_vars, pf_vars, opt_vars>>

\* a call of execute_trade(df, signal, confidence, symbol) from outside
ExecuteTrade(frame) ==
    /\ day > 0
    /\ exec' = exec_record(portfolio_value, consecutive_losses, daily_loss,
                           frame,
                           execute_trade(positions, portfolio_value,
                                         consecutive_losses, daily_loss,
                                         frame, day))
    /\ UNCHANGED <<positions, portfolio_value, daily_loss, consecutive_losses,
                   day, trading_day>>
    /\ UNCHANGED <<backtest_vars, ens_vars, calc_vars, pf_vars, opt_vars>>

AgentNext ==
    \/ \E sym \in Symbols, frame \in Frames : RunTradingDay(sym, frame)
    \/ \E frame \in Frames : ExecuteTrade(frame)

AgentSpecInit ==
    BacktestIdle /\ AgentInit /\ EnsembleIdle /\ CalcIdle /\ PortfolioInit
    /\ OptimizeIdle

SpecAgent == AgentSpecInit /\ [][AgentNext]_vars

\* positions opened by the latest run_trading_day
OpenedToday == {s \in DOMAIN positions : positions[s].entry_time = day}

\* C11: while consecutive_losses is at or above max_consecutive_losses,
\* execute_trade returns no position for any signal and run_trading_day
\* opens no new position.
C11_LossLimitBlocksEntries ==
    /\ (exec.called /\ exec.consecutive_losses >= max_consecutive_losses)
           => ~exec.returned
    /\ consecutive_losses >= max_consecutive_losses => OpenedToday = {}

C11_Witness ==
    /\ consecutive_losses >= max_consecutive_losses
    /\ exec.called
    /\ exec.consecutive_losses >= max_consecutive_losses
    /\ exec.signal = "BUY"
    /\ exec.confidence >= agent_min_confidence
    /\ exec.liquid
    /\ ~exec.returned

\* the current drawdown of the portfolio from its starting value exceeds
\* max_drawdown_pct
DrawdownBreached(value) ==
    (agent_initial_value - value) * 100 > max_drawdown_pct * agent_initial_value

\* the day's accumulated loss exceeds max_daily_loss_pct of the portfolio
DailyLossBreached(value, loss) == loss < -((value * max_daily_loss_pct) \div 100)

\* C12: execute_trade never returns a position while the portfolio drawdown
\* exceeds max_drawdown_pct or the day's accumulated loss exceeds the daily
\* limit.
C12_CircuitBreakersBlockEntries ==
    (exec.called /\ exec.returned)
        => /\ ~DrawdownBreached(exec.portfolio_value)
           /\ ~DailyLossBreached(exec.portfolio_value, exec.daily_loss)

(* ========================== EnsembleStrategy =========================== *)
\* what a member returns from generate_signal: a signal and a confidence
\* in percent, within [0, 1]
MemberVotes == {<<"BUY", 100>>, <<"SELL", 50>>, <<"HOLD", 0>>}

\* weight=None of add_strategy
NoWeight == <<0, 0>>

\* sum(self.weights.values())
RECURSIVE weight_total(_, _)
weight_total(w, keys) ==
    IF keys = {} THEN RatZero
    ELSE LET k == CHOOSE x \in keys : TRUE
         IN RatAdd(w[k], weight_total(w, keys \ {k}))

\* self.weights[name] = weight
with_weight(w, name, weight) ==
    [k \in DOMAIN w \cup {name} |-> IF k = name THEN weight ELSE w[k]]

\* the body of set_strategy_weight: the assignment, then every weight
\* divided by the total
set_strategy_weight_raw(w, name, weight) == with_weight(w, name, weight)
set_strategy_weight(w, name, weight) ==
    LET assigned == with_weight(w, name, weight)
        total == weight_total(assigned, DOMAIN assigned)
    IN [k \in DOMAIN assigned |-> RatDiv(assigned[k], total)]

\* self.weights.get(strategy.name, 1.0 / len(self.sub_strategies))
member_weight(strategies, w, k) ==
    IF strategies[k] \in DOMAIN w THEN w[strategies[k]]
    ELSE Rat(1, Len(strategies))

\* the loop of generate_signal: the score of one side after k members
RECURSIVE ensemble_score(_, _, _, _, _)
ensemble_score(strategies, w, votes, side, k) ==
    IF k = 0 THEN RatZero
    ELSE LET before == ensemble_score(strategies, w, votes, side, k - 1)
         IN IF votes[k][1] = side
            THEN RatAdd(before, RatMul(Rat(votes[k][2], 100),
                                       member_weight(strategies, w, k)))
            ELSE before

\* "Determine final signal"
ensemble_decision_ties_buy(buy_score, sell_score) ==
    IF ~RatLess(buy_score, sell_score) /\ RatLess(RatHalf, buy_score)
    THEN <<"BUY", buy_score>>
    ELSE IF RatLess(buy_score, sell_score) /\ RatLess(RatHalf, sell_score)
    THEN <<"SELL", sell_score>>
    ELSE <<"HOLD", RatZero>>
ensemble_decision(buy_score, sell_score) ==
    IF RatLess(sell_score, buy_score) /\ RatLess(RatHalf, buy_score)
    THEN <<"BUY", buy_score>>
    ELSE IF RatLess(buy_score, sell_score) /\ RatLess(RatHalf, sell_score)
    THEN <<"SELL", sell_score>>
    ELSE <<"HOLD", RatZero>>

\* EnsembleStrategy.generate_signal
ensemble_generate_signal(strategies, w, votes) ==
    IF strategies = <<>> THEN <<"HOLD", RatZero>>
    ELSE ensemble_decision(
             ensemble_score(strategies, w, votes, "BUY", Len(strategies)),
             ensemble_score(strategies, w, votes, "SELL", Len(strategies)))

AddStrategy(name, weight) ==
    /\ ens_calls < MaxEnsCalls
    /\ sub_strategies' = Append(sub_strategies, name)
    /\ weights' = with_weight(weights, name,
                      IF weight = NoWeight
                      THEN Rat(1, Len(sub_strategies) + 1)
                      ELSE weight)
    /\ ens_calls' = ens_calls + 1
    /\ last_call' = "add_strategy"
    /\ ens_result' = NoCall
    /\ UNCHANGED <<backtest_vars, agent_vars, calc_vars, pf_vars, opt_vars>>

SetStrategyWeight(name, weight) ==
    /\ ens_calls < MaxEnsCalls
    /\ weights' = set_strategy_weight(weights, name, weight)
    /\ ens_calls' = ens_calls + 1
    /\ last_call' = "set_strategy_weight"
    /\ ens_result' = NoCall
    /\ UNCHANGED sub_strategies
    /\ UNCHANGED <<backtest_vars, agent_vars, calc_vars, pf_vars, opt_vars>>

GenerateSignal(votes) ==
    /\ LET result == ensemble_generate_signal(sub_strategies, weights, votes)
       IN ens_result' = [called |-> TRUE, votes |-> votes,
                         signal |-> result[1], confidence |-> result[2]]
    /\ last_call' = "generate_signal"
    /\ UNCHANGED <<sub_strategies, weights, ens_calls>>
    /\ UNCHANGED <<backtest_vars, agent_vars, calc_vars, pf_vars, opt_vars>>

EnsembleNext ==
    \/ \E name \in Names, weight \in ExplicitWeights \cup {NoWeight} :
           AddStrategy(name, weight)
    \/ \E name \in Names, weight \in ExplicitWeights :
           SetStrategyWeight(name, weight)
    \/ \E votes \in [1..Len(sub_strategies) -> MemberVotes] :
           GenerateSignal(votes)

EnsembleSpecInit ==
    BacktestIdle /\ AgentInit /\ EnsembleInit /\ CalcIdle /\ PortfolioInit
    /\ OptimizeIdle

SpecEnsemble == EnsembleSpecInit /\ [][EnsembleNext]_vars

\* C13: after set_strategy_weight(name, weight) with a positive weight,
\* whatever add_strategy and set_strategy_weight calls came before, the
\* ensemble's weights sum to 1.
C13_WeightsSumToOne ==
    last_call = "set_strategy_weight"
        => weight_total(weights, DOMAIN weights) = RatOne

C13_Witness ==
    /\ last_call = "set_strategy_weight"
    /\ ens_calls = MaxEnsCalls
    /\ Len(sub_strategies) >= 2
    /\ \E k \in DOMAIN weights : weights[k] \notin ExplicitWeights

\* C14: the confidence EnsembleStrategy.generate_signal returns is in
\* [0, 1] for every ensemble built by the constructor and any sequence of
\* add_strategy and set_strategy_weight calls, the members' own confidences
\* being in [0, 1].
C14_EnsembleConfidenceInUnitInterval ==
    ens_result.called
        => /\ ~RatLess(ens_result.confidence, RatZero)
           /\ ~RatLess(RatOne, ens_result.confidence)

\* the sum of weight * confidence over the members voting for one side
RECURSIVE VoteSum(_, _)
VoteSum(side, members) ==
    IF members = {} THEN RatZero
    ELSE LET k == CHOOSE x \in members : TRUE
             rest == VoteSum(side, members \ {k})
         IN IF ens_result.votes[k][1] = side
            THEN RatAdd(rest, Rat(ens_result.votes[k][2]
                                    * member_weight(sub_strategies, weights, k)[1],
                                  100 * member_weight(sub_strategies, weights, k)[2]))
            ELSE rest

\* C15: generate_signal returns BUY iff buy_score > sell_score and
\* buy_score > 0.5, SELL iff sell_score > buy_score and sell_score > 0.5,
\* and (HOLD, 0.0) otherwise, in particular on equal scores; the scores are
\* the sums of weight * confidence over the members voting BUY and SELL.
C15_EnsembleDecisionRule ==
    ens_result.called =>
        LET buy_score == VoteSum("BUY", 1..Len(sub_strategies))
            sell_score == VoteSum("SELL", 1..Len(sub_strategies))
            buy == RatLess(sell_score, buy_score) /\ RatLess(RatHalf, buy_score)
            sell == RatLess(buy_score, sell_score) /\ RatLess(RatHalf, sell_score)
        IN /\ ens_result.signal = "BUY" <=> buy
           /\ ens_result.signal = "SELL" <=> sell
           /\ (~buy /\ ~sell) => /\ ens_result.signal = "HOLD"
                                 /\ ens_result.confidence = RatZero

C15_Witness ==
    /\ ens_result.called
    /\ ens_result.signal = "HOLD"
    /\ VoteSum("BUY", 1..Len(sub_strategies))
           = VoteSum("SELL", 1..Len(sub_strategies))
    /\ RatLess(RatHalf, VoteSum("BUY", 1..Len(sub_strategies)))

(* ========================= stateless functions ========================= *)
RECURSIVE SeqSum(_)
SeqSum(q) == IF q = <<>> THEN 0 ELSE Head(q) + SeqSum(Tail(q))

RECURSIVE SeqSumSq(_)
SeqSumSq(q) == IF q = <<>> THEN 0 ELSE Head(q) * Head(q) + SeqSumSq(Tail(q))

\* Series.tail(n) and Series.head(n)
tail(q, n) == SubSeq(q, Max(1, Len(q) - n + 1), Len(q))
head(q, n) == SubSeq(q, 1, Min(n, Len(q)))

RatMin(x, y) == IF RatLess(y, x) THEN y ELSE x
RatMax(x, y) == IF RatLess(x, y) THEN y ELSE x

(* -------------------------- TrendFollowingEdge ------------------------- *)
\* df["returns"], in percent: thirty older returns swinging by h around 0,
\* then three runs of ten returns swinging by a, the last return of each
\* run shifted so that the run sums to d1, d2, d3
Swing(n, a, first) ==
    [k \in 1..n |-> IF k % 2 = 1 THEN first * a ELSE -(first * a)]
Run(a, first, d) == [Swing(10, a, first) EXCEPT ![10] = @ + d]
ReturnSeries ==
    {Swing(30, h, 1) \o Run(a, first, d[1]) \o Run(a, first, d[2])
                     \o Run(a, first, d[3]) :
        h \in {0, 1}, a \in {1, 3}, first \in {1, -1},
        d \in {-1, 0, 1} \X {-1, 0, 1} \X {-1, 0, 1}}
ShortReturnSeries == {Run(a, 1, d) : a \in {1, 3}, d \in {-1, 0, 1}}

\* n * sum(r^2) - sum(r)^2: the variance of n values times n * (n - 1)
Dispersion(q) == Len(q) * SeqSumSq(q) - SeqSum(q) * SeqSum(q)

\* SignalDetector.detect_regime_change(df) compared with 0.3 and -0.3:
\* regime_strength = (vol_ratio - 1.0) * 0.5 + momentum * 252 with momentum
\* the mean of the last 30 returns, so with s their sum in percent
\* regime_strength > 0.3 is vol_ratio > (200 - 21 * s) / 125 and
\* regime_strength < -0.3 is vol_ratio < (50 - 21 * s) / 125; the clip to
\* [-1, 1] keeps both.  vol_ratio is compared on the squares, c the
\* numerator over 125; without historical variance vol_ratio is 1.0
vol_ratio_above(q, c) ==
    LET recent == Dispersion(tail(q, 30))
        historical == Dispersion(head(tail(q, 60), 30))
    IN IF historical > 0
       THEN c < 0 \/ recent * 125 * 125 > c * c * historical
       ELSE 125 > c
vol_ratio_below(q, c) ==
    LET recent == Dispersion(tail(q, 30))
        historical == Dispersion(head(tail(q, 60), 30))
    IN IF historical > 0
       THEN c > 0 /\ recent * 125 * 125 < c * c * historical
       ELSE 125 < c
regime_above_03(q) ==
    Len(q) >= 30 /\ vol_ratio_above(q, 200 - 21 * SeqSum(tail(q, 30)))
regime_below_minus_03(q) ==
    Len(q) >= 30 /\ vol_ratio_below(q, 50 - 21 * SeqSum(tail(q, 30)))

\* the sign of np.polyfit(range(30), returns.tail(30), 1)[0]: that of
\* sum((2k - 29) * r[k]) for k = 0..29
RECURSIVE slope_sum(_, _)
slope_sum(q, k) ==
    IF k = 0 THEN 0 ELSE (2 * (k - 1) - 29) * q[k] + slope_sum(q, k - 1)
momentum_trend(q) == slope_sum(tail(q, 30), 30)

\* TrendFollowingEdge.generate_signal; returns_short * 100 * 0.5 with the
\* returns in percent is sum(tail(10)) / 20
trend_edge_generate_signal(q) ==
    LET short10 == SeqSum(tail(q, 10))
        long30 == SeqSum(tail(q, 30))
    IN IF Len(q) < 50 THEN <<"HOLD", RatZero>>
       ELSE IF regime_above_03(q)
       THEN IF 5 * short10 > 2 * long30 /\ momentum_trend(q) > 0
            THEN <<"BUY", RatMin(RatOne, Rat(short10, 20))>>
            ELSE <<"HOLD", RatZero>>
       ELSE IF regime_below_minus_03(q)
       THEN IF 15 * short10 < 4 * long30 /\ momentum_trend(q) < 0
            THEN <<"SELL", RatMin(RatOne, Rat(Abs(short10), 20))>>
            ELSE <<"HOLD", RatZero>>
       ELSE <<"HOLD", RatZero>>

TrendEdgeCalls ==
    [fn : {"TrendFollowingEdge.generate_signal"},
     returns : ReturnSeries \cup ShortReturnSeries]

TrendEdgeSignal ==
    /\ call.fn = "TrendFollowingEdge.generate_signal"
    /\ ret = NoCall
    /\ LET result == trend_edge_generate_signal(call.returns)
       IN ret' = [called |-> TRUE, signal |-> result[1],
                  confidence |-> result[2]]
    /\ UNCHANGED call
    /\ UNCHANGED <<backtest_vars, agent_vars, ens_vars, pf_vars, opt_vars>>

\* C16: every strategy's generate_signal returns a direction in
\* {BUY, SELL, HOLD} and a confidence within [0, 1], for every input series
\* (checked on TrendFollowingEdge, the strategy the validator runs).
C16_StrategyConfidenceInUnitInterval ==
    (call.fn = "TrendFollowingEdge.generate_signal" /\ ret # NoCall)
        => /\ ret.signal \in {"BUY", "SELL", "HOLD"}
           /\ ~RatLess(ret.confidence, RatZero)
           /\ ~RatLess(RatOne, ret.confidence)

(* ------------------------ PositionSizer.kelly_criterion ---------------- *)
KellyCalls ==
    [fn : {"kelly_criterion"},
     win_rate : {RatZero, Rat(55, 100), RatOne},
     avg_win : {RatZero, RatOne, Rat(3, 2)},
     avg_loss : {RatZero, RatOne, Rat(3, 1)},
     kelly_fraction : {Rat(1, 4), RatOne, Rat(8, 1)}]

RatSub(x, y) == RatAdd(x, <<-y[1], y[2]>>)

\* (win_rate * avg_win - (1 - win_rate) * avg_loss) / avg_win
kelly(win_rate, avg_win, avg_loss) ==
    RatDiv(RatSub(RatMul(win_rate, avg_win),
                  RatMul(RatSub(RatOne, win_rate), avg_loss)),
           avg_win)

\* kelly_criterion: the returned fraction, or the ZeroDivisionError of the
\* division by avg_win
kelly_criterion_unclamped(win_rate, avg_win, avg_loss, kelly_fraction) ==
    IF avg_loss = RatZero \/ win_rate = RatZero
    THEN [called |-> TRUE, raised |-> "none", value |-> RatZero]
    ELSE IF avg_win = RatZero
    THEN [called |-> TRUE, raised |-> "ZeroDivisionError", value |-> RatZero]
    ELSE [called |-> TRUE, raised |-> "none",
          value |-> RatMul(kelly(win_rate, avg_win, avg_loss), kelly_fraction)]
kelly_criterion(win_rate, avg_win, avg_loss, kelly_fraction) ==
    IF avg_loss = RatZero \/ win_rate = RatZero
    THEN [called |-> TRUE, raised |-> "none", value |-> RatZero]
    ELSE IF avg_win = RatZero
    THEN [called |-> TRUE, raised |-> "ZeroDivisionError", value |-> RatZero]
    ELSE [called |-> TRUE, raised |-> "none",
          value |-> RatMax(RatZero,
                           RatMin(RatMul(kelly(win_rate, avg_win, avg_loss),
                                         kelly_fraction),
                                  RatOne))]

KellyCriterion ==
    /\ call.fn = "kelly_criterion"
    /\ ret = NoCall
    /\ ret' = kelly_criterion(call.win_rate, call.avg_win, call.avg_loss,
                              call.kelly_fraction)
    /\ UNCHANGED call
    /\ UNCHANGED <<backtest_vars, agent_vars, ens_vars, pf_vars, opt_vars>>

\* kelly_criterion(0.55, 1.5, 1.0, 0.25) has returned
KellyExample ==
    /\ call.fn = "kelly_criterion"
    /\ call.win_rate = Rat(55, 100)
    /\ call.avg_win = Rat(3, 2)
    /\ call.avg_loss = RatOne
    /\ call.kelly_fraction = Rat(1, 4)
    /\ ret # NoCall

\* a returned value of kelly_criterion lies in [0, 1]
KellyClamped ==
    (call.fn = "kelly_criterion" /\ ret # NoCall /\ ret.raised = "none")
        => /\ ~RatLess(ret.value, RatZero)
           /\ ~RatLess(RatOne, ret.value)

\* |x - y| < 0.005
RatNear(x, y) ==
    /\ RatLess(RatSub(x, y), Rat(1, 200))
    /\ RatLess(RatSub(y, x), Rat(1, 200))

\* C17 as stated: kelly_criterion(0.55, 1.5, 1.0, 0.25) yields
\* approximately 0.1375, and every result is clamped into [0, 1].
C17_KellyExampleIs01375 ==
    /\ KellyExample => (ret.raised = "none" /\ RatNear(ret.value, Rat(1375, 10000)))
    /\ KellyClamped

\* C17 amended: kelly_criterion(0.55, 1.5, 1.0, 0.25) yields
\* 0.25 * (0.55*1.5 - 0.45*1.0)/1.5 = 0.0625, and every value
\* kelly_criterion returns is clamped into [0, 1].
C17_KellyExampleIs00625 ==
    /\ KellyExample => (ret.raised = "none" /\ ret.value = Rat(625, 10000))
    /\ KellyClamped

C17_Witness ==
    /\ KellyExample
    /\ ret.raised = "none"
    /\ ret.value = Rat(1, 16)

(* ------------------------ utils.helpers functions ---------------------- *)
MaxSeriesLen == 3   \* longest series handed to a helper

Prices == {90, 95, 100, 110}           \* values of a price / equity series
TradePnls == {-30, 0, 50, 100}         \* trades['pnl']
ReturnsBp == {-10, 0, 10}              \* returns, in 1/10000

SeriesOver(values) == UNION {[1..n -> values] : n \in 0..MaxSeriesLen}

\* a missing value of a float series
NaN == <<0, 0>>

\* (1 + prices.pct_change()).cumprod(): NaN at the first row, then
\* prices[k] / prices[1]
cumulative_of(prices) ==
    [k \in 1..Len(prices) |-> IF k = 1 THEN NaN ELSE Rat(prices[k], prices[1])]

\* Series.expanding().max(): the largest value seen so far, NaN skipped
RECURSIVE expanding_max(_, _)
expanding_max(q, k) ==
    IF k = 0 THEN NaN
    ELSE LET before == expanding_max(q, k - 1)
         IN IF q[k] = NaN THEN before
            ELSE IF before = NaN THEN q[k]
            ELSE RatMax(before, q[k])

\* ((cumulative - running_max) / running_max).fillna(0)
drawdown_of(cumulative) ==
    [k \in 1..Len(cumulative) |->
        LET running_max == expanding_max(cumulative, k)
        IN IF cumulative[k] = NaN \/ running_max = NaN THEN RatZero
           ELSE RatDiv(RatSub(cumulative[k], running_max), running_max)]

\* Series.idxmin() / Series.idxmax() over rows 1..n: the first row holding
\* the extreme value, NaN rows skipped
idxmin(q, n) ==
    CHOOSE k \in 1..n :
        /\ \A j \in 1..n : ~RatLess(q[j], q[k])
        /\ \A j \in 1..(k - 1) : RatLess(q[k], q[j])
idxmax(q, n) ==
    CHOOSE k \in 1..n :
        /\ q[k] # NaN
        /\ \A j \in 1..n : q[j] = NaN \/ ~RatLess(q[k], q[j])
        /\ \A j \in 1..(k - 1) : q[j] = NaN \/ RatLess(q[j], q[k])

\* calculate_max_drawdown(prices): (max_drawdown, peak_idx, trough_idx),
\* the indexes counted from 0
calculate_max_drawdown(prices) ==
    LET cumulative == cumulative_of(prices)
        drawdown == drawdown_of(cumulative)
        trough == idxmin(drawdown, Len(drawdown))
    IN IF \A k \in 1..Len(drawdown) : drawdown[k] = RatZero
       THEN [called |-> TRUE, max_drawdown |-> RatZero, peak_idx |-> 0,
             trough_idx |-> 0]
       ELSE [called |-> TRUE, max_drawdown |-> drawdown[trough],
             peak_idx |-> idxmax(cumulative, trough - 1) - 1,
             trough_idx |-> trough - 1]

MaxDrawdownCalls == [fn : {"calculate_max_drawdown"}, prices : SeriesOver(Prices)]

CalculateMaxDrawdown ==
    /\ call.fn = "calculate_max_drawdown"
    /\ ret = NoCall
    /\ ret' = calculate_max_drawdown(call.prices)
    /\ UNCHANGED call
    /\ UNCHANGED <<backtest_vars, agent_vars, ens_vars, pf_vars, opt_vars>>

\* trades[trades['pnl'] > 0]['pnl'].sum() and the same for the losses
RECURSIVE gains_of(_)
gains_of(pnls) ==
    IF pnls = <<>> THEN 0
    ELSE (IF Head(pnls) > 0 THEN Head(pnls) ELSE 0) + gains_of(Tail(pnls))
RECURSIVE losses_of(_)
losses_of(pnls) ==
    IF pnls = <<>> THEN 0
    ELSE (IF Head(pnls) < 0 THEN -Head(pnls) ELSE 0) + losses_of(Tail(pnls))

\* calculate_profit_factor(trades)
calculate_profit_factor(pnls) ==
    IF losses_of(pnls) > 0
    THEN [called |-> TRUE, infinite |-> FALSE,
          value |-> Rat(gains_of(pnls), losses_of(pnls))]
    ELSE [called |-> TRUE, infinite |-> FALSE, value |-> RatZero]

ProfitFactorCalls == [fn : {"calculate_profit_factor"}, pnls : SeriesOver(TradePnls)]

CalculateProfitFactor ==
    /\ call.fn = "calculate_profit_factor"
    /\ ret = NoCall
    /\ ret' = calculate_profit_factor(call.pnls)
    /\ UNCHANGED call
    /\ UNCHANGED <<backtest_vars, agent_vars, ens_vars, pf_vars, opt_vars>>

\* excess_returns.std() of calculate_sharpe_ratio: NaN below two values,
\* 0 when all values are equal (the same shift is taken off every return)
std_of(q) ==
    IF Len(q) < 2 THEN "nan"
    ELSE IF \A k \in 1..Len(q) : q[k] = q[1] THEN "zero" ELSE "positive"

\* the sign of excess_returns.mean(): returns in 1/10000 less
\* 0.02 / 252 each, NaN for the empty series
excess_mean_sign(q) ==
    LET total == 252 * SeqSum(q) - 200 * Len(q)
    IN IF Len(q) = 0 THEN "nan"
       ELSE IF total > 0 THEN "positive"
       ELSE IF total < 0 THEN "negative" ELSE "zero"

\* calculate_sharpe_ratio(returns) = sqrt(252) * mean / std in numpy
\* floats: the kind of float it returns (no exception is raised; a zero
\* std divides to an infinity, or to NaN under a zero mean)
calculate_sharpe_ratio(q) ==
    LET std == std_of(q)
        mean == excess_mean_sign(q)
    IN [called |-> TRUE, raised |-> "none",
        value |-> IF std = "nan" \/ mean = "nan" THEN "nan"
                  ELSE IF std = "zero"
                  THEN (IF mean = "positive" THEN "inf"
                        ELSE IF mean = "negative" THEN "-inf" ELSE "nan")
                  ELSE IF mean = "zero" THEN "0.0" ELSE "finite"]

SharpeCalls == [fn : {"calculate_sharpe_ratio"}, returns : SeriesOver(ReturnsBp)]

CalculateSharpeRatio ==
    /\ call.fn = "calculate_sharpe_ratio"
    /\ ret = NoCall
    /\ ret' = calculate_sharpe_ratio(call.returns)
    /\ UNCHANGED call
    /\ UNCHANGED <<backtest_vars, agent_vars, ens_vars, pf_vars, opt_vars>>

(* ------- PositionSizer.volatility_based, PositionSizer.fixed_fraction --- *)
VolatilityCalls ==
    [fn : {"volatility_based"},
     volatility : {RatZero, Rat(1, 100), RatOne},
     target_volatility : {Rat(1, 50)},
     max_position : {Rat(1, 20)}]

\* volatility_based: 0.0 for zero volatility, else
\* max(0, min(target_volatility / volatility, max_position))
volatility_based(volatility, target_volatility, max_position) ==
    IF volatility = RatZero
    THEN [called |-> TRUE, raised |-> "none", value |-> RatZero]
    ELSE [called |-> TRUE, raised |-> "none",
          value |-> RatMax(RatZero,
                           RatMin(RatDiv(target_volatility, volatility),
                                  max_position))]

VolatilityBased ==
    /\ call.fn = "volatility_based"
    /\ ret = NoCall
    /\ ret' = volatility_based(call.volatility, call.target_volatility,
                               call.max_position)
    /\ UNCHANGED call
    /\ UNCHANGED <<backtest_vars, agent_vars, ens_vars, pf_vars, opt_vars>>

FixedFractionCalls ==
    [fn : {"fixed_fraction"},
     capital : {Rat(100000, 1)},
     risk_per_trade : {RatZero, Rat(1000, 1)},
     stop_loss_distance : {RatZero, Rat(2, 1)}]

\* fixed_fraction: risk_per_trade / stop_loss_distance, the float division
\* raising ZeroDivisionError for a zero divisor
fixed_fraction(capital_arg, risk_per_trade, stop_loss_distance) ==
    IF stop_loss_distance = RatZero
    THEN [called |-> TRUE, raised |-> "ZeroDivisionError", value |-> RatZero]
    ELSE [called |-> TRUE, raised |-> "none",
          value |-> RatDiv(risk_per_trade, stop_loss_distance)]

FixedFraction ==
    /\ call.fn = "fixed_fraction"
    /\ ret = NoCall
    /\ ret' = fixed_fraction(call.capital, call.risk_per_trade,
                             call.stop_loss_distance)
    /\ UNCHANGED call
    /\ UNCHANGED <<backtest_vars, agent_vars, ens_vars, pf_vars, opt_vars>>

(* ------------------ the calls of the stateless functions --------------- *)
CalcInit ==
    /\ call \in TrendEdgeCalls \cup KellyCalls \cup MaxDrawdownCalls
                \cup ProfitFactorCalls \cup SharpeCalls
                \cup VolatilityCalls \cup FixedFractionCalls
    /\ ret = NoCall

CalcNext ==
    \/ TrendEdgeSignal
    \/ KellyCriterion
    \/ CalculateMaxDrawdown
    \/ CalculateProfitFactor
    \/ CalculateSharpeRatio
    \/ VolatilityBased
    \/ FixedFraction

CalcSpecInit ==
    BacktestIdle /\ AgentInit /\ EnsembleIdle /\ CalcInit /\ PortfolioInit
    /\ OptimizeIdle

SpecCalc == CalcSpecInit /\ [][CalcNext]_vars

\* a series that never falls from one row to the next
NonDecreasing(q) == \A k \in 1..(Len(q) - 1) : q[k] <= q[k + 1]

\* C18: the maximum drawdown of a curve of positive values is <= 0, and it
\* is 0 if and only if the curve is non-decreasing (calculate_max_drawdown).
C18_MaxDrawdownZeroIffNonDecreasing ==
    (call.fn = "calculate_max_drawdown" /\ ret # NoCall)
        => /\ ~RatLess(RatZero, ret.max_drawdown)
           /\ ret.max_drawdown = RatZero <=> NonDecreasing(call.prices)

\* C19: with gains and no losses in the trade list the profit factor is
\* reported as infinite or as a very large sentinel, not as 0
\* (calculate_profit_factor).
C19_ProfitFactorUnboundedWithoutLosses ==
    (/\ call.fn = "calculate_profit_factor"
     /\ ret # NoCall
     /\ gains_of(call.pnls) > 0
     /\ losses_of(call.pnls) = 0)
        => ret.infinite \/ RatLess(Rat(100, 1), ret.value)

\* the returns of a curve have no spread: there are fewer than two of them
\* or their standard deviation is zero
NoSpread(curve) ==
    \/ Len(curve) < 3
    \/ \A k \in 2..(Len(curve) - 1) :
           Rat(curve[k + 1] - curve[k], curve[k])
               = Rat(curve[2] - curve[1], curve[1])

\* C20: the Sharpe ratio is signalled as undefined, never reported as 0 or
\* as an ordinary number, when the returns have zero standard deviation or
\* are fewer than two (sharpe_ratio reported by AdvancedBacktester.run).
C20_UndefinedSharpeIsSignalled ==
    (Advanced /\ pc = "returned" /\ NoSpread(equity_curve))
        => metrics.sharpe_ratio \notin {"0.0", "finite"}

(* =================== walk-forward windows and run totals ================ *)
\* C21: walk_forward_test over a series of length L evaluates
\* floor((L - train - test) / step) + 1 windows when L >= train + test and
\* no window when L < train + test; total_tests is that number.
C21_WalkForwardWindowCount ==
    (caller = "walk_forward" /\ pc = "wf_done")
        => Len(test_results) =
               IF Len(data) >= WFTrain + WFTest
               THEN ((Len(data) - WFTrain - WFTest) \div WFStep) + 1
               ELSE 0

\* C28: when AdvancedBacktester.run returns on a fresh engine, the last
\* value of the equity curve equals metrics.ending_capital, also when the
\* last position was closed at the end of the data.
C28_LastEquityIsEndingCapital ==
    (Advanced /\ pc = "returned" /\ runs = 1)
        => equity_curve[Len(equity_curve)] = metrics.ending_capital

\* C29: every trade recorded by AdvancedBacktester.run has holding_bars
\* equal to the index of its exit bar minus the index of its entry bar,
\* for signal exits and for the close at the final bar alike.
C29_HoldingBarsIsExitMinusEntry ==
    Advanced =>
        \A k \in RunTrades :
            trades[k].holding_bars = trades[k].exit_time - trades[k].entry_time

\* sum of the positive gross P&Ls of a trade list
RECURSIVE SumGrossGains(_)
SumGrossGains(ts) ==
    IF ts = <<>> THEN 0
    ELSE Max(Head(ts).gross_pnl, 0) + SumGrossGains(Tail(ts))

\* sum of the absolute values of the negative gross P&Ls of a trade list
RECURSIVE SumGrossLosses(_)
SumGrossLosses(ts) ==
    IF ts = <<>> THEN 0
    ELSE Max(-Head(ts).gross_pnl, 0) + SumGrossLosses(Tail(ts))

\* C25: in AdvancedBacktester.run gross_profit is the sum of the gross P&L
\* of the trades with positive gross P&L and gross_loss the sum of |gross
\* P&L| of the trades with negative gross P&L; with at least one losing
\* trade the reported profit factor is their quotient.
C25_ProfitFactorIsGainsOverLosses ==
    (Advanced /\ pc = "returned" /\ runs = 1)
        => /\ metrics.gross_profit = SumGrossGains(trades)
           /\ metrics.gross_loss = SumGrossLosses(trades)
           /\ SumGrossLosses(trades) > 0
                  => metrics.profit_factor
                         = Rat(SumGrossGains(trades), SumGrossLosses(trades))

(* ----------------------- position-sizing formulas ----------------------- *)
\* C26: the position-sizing formulas return a value and never raise, also
\* on zero inputs: kelly_criterion for zero avg_loss, win_rate or avg_win,
\* volatility_based for zero volatility, fixed_fraction for zero
\* stop_loss_distance.
C26_SizingNeverRaises ==
    (/\ call.fn \in {"kelly_criterion", "volatility_based", "fixed_fraction"}
     /\ ret # NoCall)
        => ret.raised = "none"

(* -------------------- the agent's account of its P&L -------------------- *)
\* unrealized P&L of the open positions at the closes of the latest
\* run_trading_day call
unrealized_pnl ==
    IF DOMAIN positions = {} THEN 0
    ELSE LET s == CHOOSE x \in DOMAIN positions : TRUE
         IN Notional(trading_day.close - positions[s].entry_price,
                     positions[s].size)

\* portfolio_value less the unrealized P&L: the starting value plus the
\* realized P&L, if none is lost
booked_value == portfolio_value - unrealized_pnl

\* gross P&L of the position an exit of the day_report closed
RECURSIVE realized_by(_, _)
realized_by(exits, pos) ==
    IF exits = <<>> THEN 0
    ELSE Notional(Head(exits).exit_price - pos[Head(exits).symbol].entry_price,
                  pos[Head(exits).symbol].size)
         + realized_by(Tail(exits), pos)

\* C30: realized P&L is never lost: portfolio_value is the starting 100000
\* plus the realized P&L of every position closed so far plus the
\* unrealized P&L of the open positions, so that every run_trading_day
\* raises portfolio_value less unrealized P&L by exactly the P&L (gross, or
\* net of the 0.2% cost) of the positions it closed.
C30_RealizedPnlIsKept ==
    [][day' = day + 1 =>
          LET gross == realized_by(trading_day'.exits, positions)
          IN booked_value' - booked_value
                 \in {gross, (gross * 998) \div 1000}]_vars

(* ====================== risk_management.Portfolio ======================= *)
\* add_position: self.positions[symbol] = {...}; entry_time is the time of
\* the call
add_position(pos, symbol, quantity, price, now) ==
    [s \in DOMAIN pos \cup {symbol} |->
        IF s = symbol
        THEN [quantity |-> quantity, entry_price |-> price,
              entry_time |-> now]
        ELSE pos[s]]

AddPosition(symbol, quantity, price) ==
    /\ pf_calls < MaxPfCalls
    /\ pf_positions' = add_position(pf_positions, symbol, quantity, price,
                                    pf_calls + 1)
    /\ pf_calls' = pf_calls + 1
    /\ pf_last' = [called |-> TRUE, fn |-> "add_position", symbol |-> symbol,
                   returned |-> 0]
    /\ UNCHANGED <<pf_trades, current_capital, pf_equity_curve>>
    /\ UNCHANGED <<backtest_vars, agent_vars, ens_vars, calc_vars, opt_vars>>

\* the trade close_position records for the popped position
pf_trade(pos, symbol, exit_price, now) ==
    [symbol |-> symbol, entry_price |-> pos.entry_price,
     exit_price |-> exit_price, quantity |-> pos.quantity,
     pnl |-> (exit_price - pos.entry_price) * pos.quantity,
     entry_time |-> pos.entry_time, exit_time |-> now]

ClosePosition(symbol, exit_price) ==
    /\ pf_calls < MaxPfCalls
    /\ pf_calls' = pf_calls + 1
    /\ IF symbol \notin DOMAIN pf_positions
       THEN /\ pf_last' = [called |-> TRUE, fn |-> "close_position",
                           symbol |-> symbol, returned |-> 0]
            /\ UNCHANGED <<pf_positions, pf_trades, current_capital,
                           pf_equity_curve>>
       ELSE LET trade == pf_trade(pf_positions[symbol], symbol, exit_price,
                                  pf_calls + 1)
            IN /\ pf_positions' = [s \in DOMAIN pf_positions \ {symbol} |->
                                       pf_positions[s]]
               /\ pf_trades' = Append(pf_trades, trade)
               /\ current_capital' = current_capital + trade.pnl
               /\ pf_equity_curve' = Append(pf_equity_curve,
                                            current_capital + trade.pnl)
               /\ pf_last' = [called |-> TRUE, fn |-> "close_position",
                              symbol |-> symbol, returned |-> trade.pnl]
    /\ UNCHANGED <<backtest_vars, agent_vars, ens_vars, calc_vars, opt_vars>>

PortfolioNext ==
    \/ \E symbol \in PfSymbols, quantity \in PfQuantities,
          price \in PfEntryPrices :
           AddPosition(symbol, quantity, price)
    \/ \E symbol \in PfSymbols, exit_price \in PfExitPrices :
           ClosePosition(symbol, exit_price)

PortfolioSpecInit ==
    BacktestIdle /\ AgentInit /\ EnsembleIdle /\ CalcIdle /\ PortfolioInit
    /\ OptimizeIdle

SpecPortfolio == PortfolioSpecInit /\ [][PortfolioNext]_vars

\* the positions the portfolio accounts for, by the time they were added:
\* the open ones and the ones recorded as a trade
pf_open_ids == {pf_positions[s].entry_time : s \in DOMAIN pf_positions}
pf_closed_ids == {pf_trades[k].entry_time : k \in 1..Len(pf_trades)}

RECURSIVE SumPnl(_)
SumPnl(ts) == IF ts = <<>> THEN 0 ELSE Head(ts).pnl + SumPnl(Tail(ts))

\* C27: under any sequence of add_position and close_position calls every
\* position that was added is still open or has been closed exactly once
\* and recorded as exactly one trade whose P&L went into current_capital,
\* also when add_position is called for a symbol with an open position;
\* close_position for a symbol with no open position returns 0.0 and
\* changes nothing.
C27_EveryPositionOpenOrClosedOnce ==
    [][/\ pf_open_ids \cup pf_closed_ids \subseteq pf_open_ids' \cup pf_closed_ids'
       /\ pf_last'.fn = "add_position" => pf_calls' \in pf_open_ids'
       /\ pf_open_ids' \cap pf_closed_ids' = {}
       /\ Cardinality(pf_closed_ids') = Len(pf_trades')
       /\ current_capital' = pf_initial_capital + SumPnl(pf_trades')
       /\ (pf_last'.fn = "close_position" /\ pf_last'.symbol \notin DOMAIN pf_positions)
              => /\ pf_last'.returned = 0
                 /\ UNCHANGED <<pf_positions, pf_trades, current_capital,
                                pf_equity_curve>>]_pf_vars

(* ================= BacktestEngine.optimize_parameters =================== *)
\* dict.update: the entries of point replace or join those of params
dict_update(params, point) ==
    [k \in DOMAIN params \cup DOMAIN point |->
        IF k \in DOMAIN point THEN point[k] ELSE params[k]]

\* self.strategy.params.update(params_dict): the strategy's own dict is
\* updated in place and stays so after the run
strategy_params_after(params, point) == dict_update(params, point)

\* equity_series.pct_change().dropna() in 1/10000, rounded down
eng_returns(curve) ==
    [k \in 1..(Len(curve) - 1) |->
        ((curve[k + 1] - curve[k]) * 10000) \div curve[k]]

\* results.sharpe_ratio = calculate_sharpe_ratio(returns): NaN below two
\* returns, an infinity (NaN under a zero mean) when the returns are all
\* equal, else sqrt(252) * mean / std.  key orders the finite values: for
\* the two returns r1, r2 of a run with two trades std = |r1 - r2| / sqrt(2)
\* and the ratio is (252 (r1 + r2) - 400) / |r1 - r2| times a positive
\* constant (the frames of OptSeries allow at most two trades)
eng_sharpe_ratio(curve) ==
    LET r == eng_returns(curve)
        excess == 252 * SeqSum(r) - 200 * Len(r)
    IN IF Len(r) < 2 THEN [kind |-> "nan", key |-> RatZero]
       ELSE IF \A k \in 1..Len(r) : r[k] = r[1]
       THEN [kind |-> IF excess > 0 THEN "inf"
                      ELSE IF excess < 0 THEN "-inf" ELSE "nan",
             key |-> RatZero]
       ELSE [kind |-> "finite",
             key |-> Rat(252 * (r[1] + r[2]) - 400, Abs(r[1] - r[2]))]

\* a > b on Python floats: false whenever an operand is NaN
float_greater(a, b) ==
    /\ a.kind # "nan"
    /\ b.kind # "nan"
    /\ \/ a.kind = "inf" /\ b.kind # "inf"
       \/ a.kind = "finite" /\ b.kind = "-inf"
       \/ a.kind = "finite" /\ b.kind = "finite" /\ RatLess(b.key, a.key)

\* a > b with NaN ranked below every number
float_greater_nan_lowest(a, b) ==
    \/ float_greater(a, b)
    \/ a.kind # "nan" /\ b.kind = "nan"

\* the head of one iteration of the loop at lines 248-257: the strategy's
\* parameters are updated, the engine is reset and run_backtest is entered
OptimizePoint ==
    /\ caller = "optimize"
    /\ pc \in {"constructed", "collected"}
    /\ opt_k < Len(grid)
    /\ strategy_params' = strategy_params_after(strategy_params, grid[opt_k + 1])
    /\ trades' = <<>>
    /\ equity_curve' = <<initial_capital>>
    /\ capital' = initial_capital
    /\ trades_at_start' = 0
    /\ runs' = runs + 1
    /\ run_locals
    /\ UNCHANGED <<kind, df, warmup_periods>>
    /\ UNCHANGED wf_vars
    /\ UNCHANGED <<grid, opt_k, best_sharpe, best_params, best_results>>
    /\ UNCHANGED <<agent_vars, ens_vars, calc_vars, pf_vars>>

\* lines 260-263 after run_backtest returned: the comparison with the best
\* Sharpe ratio so far
OptimizeCollect ==
    /\ caller = "optimize"
    /\ pc = "returned"
    /\ LET sharpe == eng_sharpe_ratio(equity_curve)
           better == float_greater(sharpe, best_sharpe)
       IN /\ best_sharpe' = IF better THEN sharpe ELSE best_sharpe
          /\ best_params' = IF better THEN grid[opt_k + 1] ELSE best_params
          /\ best_results' =
                 IF better
                 THEN [is_none |-> FALSE, sharpe_ratio |-> sharpe,
                       total_trades |-> Len(trades),
                       ending_capital |-> capital]
                 ELSE best_results
    /\ opt_k' = opt_k + 1
    /\ pc' = "collected"
    /\ UNCHANGED <<kind, capital, equity_curve, trades, df, warmup_periods, error,
                   i, bars_processed, current_data, signal, confidence,
                   strategy_raised, position, entry_price, entry_time,
                   position_size, entry_confidence, metrics, runs, entries,
                   trades_at_start>>
    /\ UNCHANGED wf_vars
    /\ UNCHANGED <<strategy_params, grid>>
    /\ UNCHANGED <<agent_vars, ens_vars, calc_vars, pf_vars>>

\* an exception that left run_backtest: the loop has no handler, the
\* exception leaves optimize_parameters and its locals are gone
OptimizeAbort ==
    /\ caller = "optimize"
    /\ pc = "raised"
    /\ pc' = "opt_raised"
    /\ UNCHANGED <<kind, capital, equity_curve, trades, df, warmup_periods, error,
                   i, bars_processed, current_data, signal, confidence,
                   strategy_raised, position, entry_price, entry_time,
                   position_size, entry_confidence, metrics, runs, entries,
                   trades_at_start>>
    /\ UNCHANGED wf_vars
    /\ UNCHANGED non_backtest_vars

\* lines 265-267 after the loop: return best_params, best_results
OptimizeReturn ==
    /\ caller = "optimize"
    /\ pc \in {"constructed", "collected"}
    /\ opt_k = Len(grid)
    /\ pc' = "opt_done"
    /\ UNCHANGED <<kind, capital, equity_curve, trades, df, warmup_periods, error,
                   i, bars_processed, current_data, signal, confidence,
                   strategy_raised, position, entry_price, entry_time,
                   position_size, entry_confidence, metrics, runs, entries,
                   trades_at_start>>
    /\ UNCHANGED wf_vars
    /\ UNCHANGED non_backtest_vars

\* BacktestEngine(strategy) with a MeanReversionStrategy of default
\* parameters, and the call optimize_parameters(df, parameter_grid)
OptimizeInit ==
    /\ caller = "optimize"
    /\ kind = "BacktestEngine"
    /\ df \in OptSeries
    /\ warmup_periods = opt_start_idx
    /\ data = <<>>
    /\ engine_constructed
    /\ strategy_params = default_params
    /\ grid \in {generate_parameter_combinations(g) : g \in ParameterGrids}
    /\ optimize_locals

OptimizeNext ==
    \/ OptimizePoint
    \/ \E out \in OptOutcomes : EngineBar(out)
    \/ EngineFinish
    \/ OptimizeCollect
    \/ OptimizeAbort
    \/ OptimizeReturn

OptimizeSpecInit ==
    OptimizeInit /\ AgentInit /\ EnsembleIdle /\ CalcIdle /\ PortfolioInit

SpecOptimize == OptimizeSpecInit /\ [][OptimizeNext]_vars

\* C22: every grid point runs from fresh engine state (no trades, equity
\* curve [initial_capital], capital = initial_capital) and on its own copy
\* of the strategy configuration: the strategy's parameter map is the same
\* after the search as before it.
C22_GridPointsAreIsolated ==
    caller = "optimize" =>
        /\ (pc = "loop" /\ bars_processed = 0)
               => /\ trades = <<>>
                  /\ equity_curve = <<initial_capital>>
                  /\ capital = initial_capital
        /\ pc = "opt_done" => strategy_params = default_params

\* C23: for a non-empty grid optimize_parameters returns a grid point, and
\* the Sharpe ratio of the point it holds is never below that of a point it
\* has evaluated: every comparison keeps the larger of the best Sharpe ratio
\* so far and the Sharpe ratio of the point just run, an undefined ratio
\* counting as the smallest.
C23_ReturnsBestGridPoint ==
    [][/\ (pc = "returned" /\ pc' = "collected")
              => /\ ~float_greater_nan_lowest(eng_sharpe_ratio(equity_curve),
                                              best_sharpe')
                 /\ ~float_greater_nan_lowest(best_sharpe, best_sharpe')
                 /\ best_params' \in {best_params, grid[opt_k + 1]}
       /\ pc' = "opt_done" => best_params' \in SeqRange(grid)]_vars

\* C24: an exception raised while a grid point is evaluated is skipped: it
\* does not leave optimize_parameters, which goes on with the remaining
\* points and returns.
C24_FailedPointIsSkipped ==
    caller = "optimize" => pc # "opt_raised"

====
